---- MODULE Spec2Model ----
(***************************************************************************)
(* Model of the bounded single-producer/single-consumer ring buffer of     *)
(* src/src/main.rs (struct RingBuffer, impl Queue for RingBuffer) and of   *)
(* its driver bench().                                                     *)
(*                                                                         *)
(* Three specifications share the state of one RingBuffer:                 *)
(*   Spec       push and pop as whole calls, in any order, any values;    *)
(*   SpecSteps  push and pop split into their statements, the producer's  *)
(*              and the consumer's statements interleaved freely;         *)
(*   SpecBench  the two threads of bench(), every call under the Mutex.   *)
(***************************************************************************)
EXTENDS Integers, Sequences, FiniteSets, TLC

\* ------------------------------------------------------------------ bounds
\* Largest capacity passed to new(); capacities 0..MaxCap are all explored.
MaxCap == 4
\* Values handed to push are 1..MaxVal (the zero-initialised slots hold 0).
MaxVal == 4
\* Calls to push stop once this many values have been accepted.
MaxPushes == 5
\* SpecSteps: largest capacity, and the number of accepted values after which
\* the producer stops calling push.
MaxCapSteps == 3
MaxPushesSteps == 4
\* SpecBench: largest capacity and largest iteration count given to bench().
MaxCapBench == 3
MaxIters == 5
\* SpecWrap: largest capacity, values 1..MaxValWrap, the longest recorded
\* call sequence, and the largest number of fill-and-drain cycles.
MaxCapWrap == 3
MaxValWrap == 2
MaxTrace == 4
MaxCycles == 4

Values == 1 .. MaxVal
Capacities == 0 .. MaxCap

VARIABLES
    capacity,            \* data_.len(), fixed by new(capacity)
    data_,               \* Vec<i32>: function 0..capacity-1 -> value
    read_idx_,           \* AtomicUsize, stored only by pop
    read_idx_cached_,    \* usize, private to push
    write_idx_,          \* AtomicUsize, stored only by push
    write_idx_cached_,   \* usize, private to pop
    out,                 \* the caller's i32 that pop receives by &mut
    panicked,            \* an index-out-of-bounds panic has been raised
    pushed,              \* history: values of the pushes that returned true
    popped,              \* history: values delivered by the pops that returned true
    last,                \* history: the last completed call: which one, its
                         \* value, its result, whether it refreshed its cache,
                         \* and a bit that flips with every call
    run,                 \* history: push calls made in a row since the buffer
                         \* was empty (-1 once a pop left values behind)
    ppc,                 \* SpecSteps: the statement of push the producer is at
    pl,                  \* SpecSteps: push's locals val, write_idx, next_write_idx
    cpc,                 \* SpecSteps: the statement of pop the consumer is at
    cl,                  \* SpecSteps: pop's local read_idx
    iters,               \* SpecBench: bench's parameter iters
    mutex,               \* SpecBench: the holder of the Mutex around the buffer
    b_ppc,               \* SpecBench: where the main (producer) thread is
    prod_i,              \* SpecBench: the producer loop's i
    b_cpc,               \* SpecBench: where the spawned (consumer) thread is
    cons_i,              \* SpecBench: the consumer loop's i
    exited,              \* SpecBench: process::exit(1) was called (line 109)
    scen,                \* history: how many calls of the reference scenario
                         \* the calls made so far are (-1: they departed from it)
    wphase,              \* SpecWrap: "record", "cycle" or "replay"
    wtrace,              \* SpecWrap: the calls made on the fresh buffer, with
                         \* their answers
    wcycles,             \* SpecWrap: completed fill-and-drain cycles
    wstep,               \* SpecWrap: successful calls of the current cycle
    wans                 \* SpecWrap: the answers to the replayed calls

rbvars == <<capacity, data_, read_idx_, read_idx_cached_, write_idx_, write_idx_cached_>>
histvars == <<pushed, popped, last, run>>
stepvars == <<ppc, pl, cpc, cl>>
benchvars == <<iters, mutex, b_ppc, prod_i, b_cpc, cons_i, exited>>
wrapvars == <<wphase, wtrace, wcycles, wstep, wans>>
vars == <<rbvars, out, panicked, histvars, stepvars, benchvars, scen, wrapvars>>

\* ------------------------------------------------------------ RingBuffer
\* RingBuffer::new: capacity zeroed slots, both cursors and both caches 0.
new(cap) ==
    /\ capacity = cap
    /\ data_ = [i \in 0 .. cap - 1 |-> 0]
    /\ read_idx_ = 0
    /\ read_idx_cached_ = 0
    /\ write_idx_ = 0
    /\ write_idx_cached_ = 0

\* Faulty variant of NextWriteIdx: the wrap to slot 0 is missing.
NextWriteIdx_no_wrap(write_idx) == write_idx + 1

\* push, lines 35-39: the slot after write_idx, wrapping at data_.len().
NextWriteIdx(write_idx) ==
    IF write_idx + 1 = capacity THEN 0 ELSE write_idx + 1

\* Faulty variant of NextReadIdx: the read cursor is never advanced.
NextReadIdx_stuck(read_idx) == read_idx

\* pop, lines 64-68: the slot after read_idx, wrapping at data_.len().
NextReadIdx(read_idx) ==
    IF read_idx + 1 = capacity THEN 0 ELSE read_idx + 1

\* push, line 41: the cached read cursor says the buffer may be full.
PushNeedsRefresh(next_write_idx) == next_write_idx = read_idx_cached_

\* Faulty variant of PushStillFull: the second test is left out, so push
\* never returns false.
PushStillFull_never(next_write_idx, refreshed) == FALSE

\* push, line 44: after the refresh the buffer is still full.
PushStillFull(next_write_idx, refreshed) == next_write_idx = refreshed

\* pop, line 57: the cached write cursor says the buffer may be empty.
PopNeedsRefresh(read_idx) == read_idx = write_idx_cached_

\* pop, line 59: after the refresh the buffer is still empty.
PopStillEmpty(read_idx, refreshed) == read_idx = refreshed

\* Faulty variant of PopSlot: pop copies the slot after read_idx.
PopSlot_next(read_idx) == NextReadIdx(read_idx)

\* pop, line 63: the slot whose value is copied to *val.
PopSlot(read_idx) == read_idx

\* Faulty variant of PushSlot: val is stored in the slot after write_idx.
PushSlot_next(write_idx) == NextWriteIdx(write_idx)

\* push, line 49: the slot that receives val.
PushSlot(write_idx) == write_idx

\* The value of read_idx_cached_ when push leaves lines 41-47.
PushCache(next_write_idx) ==
    IF PushNeedsRefresh(next_write_idx) THEN read_idx_ ELSE read_idx_cached_

\* Faulty variant of PushRejects: push trusts the cached read cursor and
\* returns false without looking at the refreshed value.
PushRejects_stale(next_write_idx) == PushNeedsRefresh(next_write_idx)

\* push returns false at line 45.
PushRejects(next_write_idx) ==
    /\ PushNeedsRefresh(next_write_idx)
    /\ PushStillFull(next_write_idx, read_idx_)

\* Faulty variant of PopCache: the refreshed write cursor is compared but
\* not kept, so write_idx_cached_ stays as new() left it.
PopCache_not_kept(read_idx) == write_idx_cached_

\* The value of write_idx_cached_ when pop leaves lines 57-62.
PopCache(read_idx) ==
    IF PopNeedsRefresh(read_idx) THEN write_idx_ ELSE write_idx_cached_

\* Faulty variant of PopRejects: pop trusts the cached write cursor and
\* returns false without looking at the refreshed value.
PopRejects_stale(read_idx) == PopNeedsRefresh(read_idx)

\* pop returns false at line 60.
PopRejects(read_idx) ==
    /\ PopNeedsRefresh(read_idx)
    /\ PopStillEmpty(read_idx, write_idx_)

\* Faulty variant of push: line 49 is executed before the full test, so a
\* rejected push has already stored val.
push_early_write(val, ret) ==
    LET write_idx == write_idx_
        next_write_idx == NextWriteIdx(write_idx)
    IN  /\ read_idx_cached_' = PushCache(next_write_idx)
        /\ UNCHANGED <<capacity, read_idx_, write_idx_cached_>>
        /\ IF PushSlot(write_idx) \notin DOMAIN data_
           THEN /\ ret = "panic"
                /\ UNCHANGED <<data_, write_idx_>>
           ELSE /\ data_' = [data_ EXCEPT ![PushSlot(write_idx)] = val]
                /\ IF PushRejects(next_write_idx)
                   THEN /\ ret = "false"
                        /\ UNCHANGED write_idx_
                   ELSE /\ ret = "true"
                        /\ write_idx_' = next_write_idx

\* RingBuffer::push as one call.  ret is the value returned; a panic
\* (data_[write_idx] out of bounds) is reported as ret = "panic".
push(val, ret) ==
    LET write_idx == write_idx_
        next_write_idx == NextWriteIdx(write_idx)
    IN  /\ read_idx_cached_' = PushCache(next_write_idx)
        /\ UNCHANGED <<capacity, read_idx_, write_idx_cached_>>
        /\ IF PushRejects(next_write_idx)
           THEN /\ ret = "false"
                /\ UNCHANGED <<data_, write_idx_>>
           ELSE IF PushSlot(write_idx) \notin DOMAIN data_
           THEN /\ ret = "panic"
                /\ UNCHANGED <<data_, write_idx_>>
           ELSE /\ ret = "true"
                /\ data_' = [data_ EXCEPT ![PushSlot(write_idx)] = val]
                /\ write_idx_' = next_write_idx

\* Faulty variant of pop: line 63 is executed before the empty test, so a
\* rejected pop has already overwritten *val.
pop_early_read(val0, val1, ret) ==
    LET read_idx == read_idx_
    IN  /\ write_idx_cached_' = PopCache(read_idx)
        /\ UNCHANGED <<capacity, data_, write_idx_, read_idx_cached_>>
        /\ IF PopSlot(read_idx) \notin DOMAIN data_
           THEN /\ ret = "false"
                /\ val1 = val0
                /\ UNCHANGED read_idx_
           ELSE /\ val1 = data_[PopSlot(read_idx)]
                /\ IF PopRejects(read_idx)
                   THEN /\ ret = "false"
                        /\ UNCHANGED read_idx_
                   ELSE /\ ret = "true"
                        /\ read_idx_' = NextReadIdx(read_idx)

\* RingBuffer::pop as one call.  val0 is the caller's value of *val before
\* the call, val1 its value after it.
pop(val0, val1, ret) ==
    LET read_idx == read_idx_
    IN  /\ write_idx_cached_' = PopCache(read_idx)
        /\ UNCHANGED <<capacity, data_, write_idx_, read_idx_cached_>>
        /\ IF PopRejects(read_idx)
           THEN /\ ret = "false"
                /\ val1 = val0
                /\ UNCHANGED read_idx_
           ELSE IF PopSlot(read_idx) \notin DOMAIN data_
           THEN /\ ret = "panic"
                /\ val1 = val0
                /\ UNCHANGED read_idx_
           ELSE /\ ret = "true"
                /\ val1 = data_[PopSlot(read_idx)]
                /\ read_idx_' = NextReadIdx(read_idx)

Rets == {"true", "false", "panic"}

\* --------------------------------------------------- Spec: whole calls
\* No call is in progress in the statement-level view.
StepsIdle ==
    /\ ppc = "idle"
    /\ pl = [val |-> 0, write_idx |-> 0, next_write_idx |-> 0, ret |-> "none"]
    /\ cpc = "idle"
    /\ cl = [read_idx |-> 0, ret |-> "none"]

\* bench() is not running.
BenchOff ==
    /\ iters = 0
    /\ mutex = "free"
    /\ b_ppc = "off"
    /\ prod_i = 0
    /\ b_cpc = "off"
    /\ cons_i = 0
    /\ exited = FALSE

\* No record-and-replay run is under way.
WrapOff ==
    /\ wphase = "off"
    /\ wtrace = <<>>
    /\ wcycles = 0
    /\ wstep = 0
    /\ wans = <<>>

Init ==
    /\ \E cap \in Capacities : new(cap)
    /\ StepsIdle
    /\ BenchOff
    /\ WrapOff
    /\ scen = 0
    /\ out = -1
    /\ panicked = FALSE
    /\ pushed = <<>>
    /\ popped = <<>>
    /\ last = [op |-> "new", val |-> 0, ret |-> "true", refreshed |-> FALSE, tick |-> 0]
    /\ run = 0

\* The calls of the reference scenario, in order (val is unused by pop).
Scenario ==
    << [op |-> "push", val |-> 1], [op |-> "push", val |-> 2],
       [op |-> "push", val |-> 3], [op |-> "push", val |-> 4],
       [op |-> "pop", val |-> 0], [op |-> "push", val |-> 4],
       [op |-> "pop", val |-> 0], [op |-> "pop", val |-> 0],
       [op |-> "pop", val |-> 0], [op |-> "pop", val |-> 0] >>

\* The position in Scenario after one more call: the next one if the call
\* is the scenario's next call, -1 otherwise.
ScenAfter(op, val) ==
    IF /\ scen >= 0
       /\ scen < Len(Scenario)
       /\ Scenario[scen + 1].op = op
       /\ op = "push" => Scenario[scen + 1].val = val
    THEN scen + 1
    ELSE -1

\* A caller invokes push(val).
Push(val) ==
    /\ ~panicked
    /\ Len(pushed) < MaxPushes
    /\ \E ret \in Rets :
        /\ push(val, ret)
        /\ panicked' = (ret = "panic")
        /\ pushed' = IF ret = "true" THEN Append(pushed, val) ELSE pushed
        /\ last' = [op |-> "push", val |-> val, ret |-> ret,
                    refreshed |-> PushNeedsRefresh(NextWriteIdx(write_idx_)),
                    tick |-> 1 - last.tick]
    /\ run' = IF run < 0 \/ run > capacity THEN run ELSE run + 1
    /\ scen' = ScenAfter("push", val)
    /\ UNCHANGED <<out, popped, stepvars, benchvars, wrapvars>>

\* A caller invokes pop(&mut out).
Pop ==
    /\ ~panicked
    /\ \E ret \in Rets :
        /\ pop(out, out', ret)
        /\ panicked' = (ret = "panic")
        /\ popped' = IF ret = "true" THEN Append(popped, out') ELSE popped
        /\ last' = [op |-> "pop", val |-> out', ret |-> ret,
                    refreshed |-> PopNeedsRefresh(read_idx_),
                    tick |-> 1 - last.tick]
        /\ run' = IF Len(pushed) = Len(popped') THEN 0 ELSE -1
    /\ scen' = ScenAfter("pop", 0)
    /\ UNCHANGED <<pushed, stepvars, benchvars, wrapvars>>

Next ==
    \/ \E val \in Values : Push(val)
    \/ Pop

Spec == Init /\ [][Next]_vars

\* ------------------------------------------- SpecSteps: statement level
\* One producer runs push and one consumer runs pop, each statement by
\* statement, with no lock between them.  Loads and stores of the two atomic
\* cursors take effect in program order.
CapacitiesSteps == 0 .. MaxCapSteps

InitSteps ==
    /\ Init
    /\ capacity \in CapacitiesSteps

\* Faulty variant of P_Load: when the cached read cursor says "full", push
\* returns false at once, without the refresh of line 42.
P_Load_trust_cache(val) ==
    /\ ~panicked
    /\ ppc = "idle"
    /\ Len(pushed) < MaxPushesSteps
    /\ LET write_idx == write_idx_
           next_write_idx == NextWriteIdx(write_idx)
       IN  IF PushNeedsRefresh(next_write_idx)
           THEN /\ pl' = [val |-> val, write_idx |-> write_idx,
                          next_write_idx |-> next_write_idx, ret |-> "false"]
                /\ ppc' = "idle"
           ELSE /\ pl' = [val |-> val, write_idx |-> write_idx,
                          next_write_idx |-> next_write_idx, ret |-> "none"]
                /\ ppc' = "L49"
    /\ UNCHANGED <<rbvars, out, panicked, histvars, cpc, cl, benchvars, scen, wrapvars>>

\* push, lines 33-41: called with val; loads write_idx_, computes
\* next_write_idx and compares it with the cached read cursor.
P_Load(val) ==
    /\ ~panicked
    /\ ppc = "idle"
    /\ Len(pushed) < MaxPushesSteps
    /\ LET write_idx == write_idx_
           next_write_idx == NextWriteIdx(write_idx)
       IN  /\ pl' = [val |-> val, write_idx |-> write_idx,
                     next_write_idx |-> next_write_idx, ret |-> "none"]
           /\ ppc' = IF PushNeedsRefresh(next_write_idx) THEN "L42" ELSE "L49"
    /\ UNCHANGED <<rbvars, out, panicked, histvars, cpc, cl, benchvars, scen, wrapvars>>

\* Faulty variant of P_Refresh: line 44's second test is missing, so the
\* producer goes on to write whatever the refreshed cursor says.
P_Refresh_no_test ==
    /\ ~panicked
    /\ ppc = "L42"
    /\ read_idx_cached_' = read_idx_
    /\ ppc' = "L49"
    /\ pl' = pl
    /\ UNCHANGED <<capacity, data_, read_idx_, write_idx_, write_idx_cached_>>
    /\ UNCHANGED <<out, panicked, histvars, cpc, cl, benchvars, scen, wrapvars>>

\* push, lines 42-46: reloads read_idx_ into the cache; returns false if
\* the buffer is still full.
P_Refresh ==
    /\ ~panicked
    /\ ppc = "L42"
    /\ read_idx_cached_' = read_idx_
    /\ IF PushStillFull(pl.next_write_idx, read_idx_)
       THEN /\ ppc' = "idle"
            /\ pl' = [pl EXCEPT !.ret = "false"]
       ELSE /\ ppc' = "L49"
            /\ pl' = pl
    /\ UNCHANGED <<capacity, data_, read_idx_, write_idx_, write_idx_cached_>>
    /\ UNCHANGED <<out, panicked, histvars, cpc, cl, benchvars, scen, wrapvars>>

\* push, line 49: data_[write_idx] = val (panics out of bounds).
P_Write ==
    /\ ~panicked
    /\ ppc = "L49"
    /\ IF PushSlot(pl.write_idx) \notin DOMAIN data_
       THEN /\ panicked' = TRUE
            /\ pl' = [pl EXCEPT !.ret = "panic"]
            /\ UNCHANGED <<data_, ppc>>
       ELSE /\ data_' = [data_ EXCEPT ![PushSlot(pl.write_idx)] = pl.val]
            /\ ppc' = "L50"
            /\ UNCHANGED <<panicked, pl>>
    /\ UNCHANGED <<capacity, read_idx_, read_idx_cached_, write_idx_, write_idx_cached_>>
    /\ UNCHANGED <<out, histvars, cpc, cl, benchvars, scen, wrapvars>>

\* push, lines 50-52: publishes next_write_idx and returns true.
P_Store ==
    /\ ~panicked
    /\ ppc = "L50"
    /\ write_idx_' = pl.next_write_idx
    /\ ppc' = "idle"
    /\ pl' = [pl EXCEPT !.ret = "true"]
    /\ pushed' = Append(pushed, pl.val)
    /\ UNCHANGED <<capacity, data_, read_idx_, read_idx_cached_, write_idx_cached_>>
    /\ UNCHANGED <<out, panicked, popped, last, run, cpc, cl, benchvars, scen, wrapvars>>

\* pop, lines 55-57: loads read_idx_ and compares it with the cached write
\* cursor.
C_Load ==
    /\ ~panicked
    /\ cpc = "idle"
    /\ LET read_idx == read_idx_
       IN  /\ cl' = [read_idx |-> read_idx, ret |-> "none"]
           /\ cpc' = IF PopNeedsRefresh(read_idx) THEN "L58" ELSE "L63"
    /\ UNCHANGED <<rbvars, out, panicked, histvars, ppc, pl, benchvars, scen, wrapvars>>

\* Faulty variant of C_Refresh: the reloaded write cursor is stored in the
\* producer's read_idx_cached_ instead of write_idx_cached_.
C_Refresh_wrong_field ==
    /\ ~panicked
    /\ cpc = "L58"
    /\ read_idx_cached_' = write_idx_
    /\ IF PopStillEmpty(cl.read_idx, write_idx_)
       THEN /\ cpc' = "idle"
            /\ cl' = [cl EXCEPT !.ret = "false"]
       ELSE /\ cpc' = "L63"
            /\ cl' = cl
    /\ UNCHANGED <<capacity, data_, read_idx_, write_idx_cached_, write_idx_>>
    /\ UNCHANGED <<out, panicked, histvars, ppc, pl, benchvars, scen, wrapvars>>

\* pop, lines 58-62: reloads write_idx_ into the cache; returns false if
\* the buffer is still empty.
C_Refresh ==
    /\ ~panicked
    /\ cpc = "L58"
    /\ write_idx_cached_' = write_idx_
    /\ IF PopStillEmpty(cl.read_idx, write_idx_)
       THEN /\ cpc' = "idle"
            /\ cl' = [cl EXCEPT !.ret = "false"]
       ELSE /\ cpc' = "L63"
            /\ cl' = cl
    /\ UNCHANGED <<capacity, data_, read_idx_, read_idx_cached_, write_idx_>>
    /\ UNCHANGED <<out, panicked, histvars, ppc, pl, benchvars, scen, wrapvars>>

\* pop, line 63: *val = data_[read_idx] (panics out of bounds).
C_Read ==
    /\ ~panicked
    /\ cpc = "L63"
    /\ IF PopSlot(cl.read_idx) \notin DOMAIN data_
       THEN /\ panicked' = TRUE
            /\ cl' = [cl EXCEPT !.ret = "panic"]
            /\ UNCHANGED <<out, cpc>>
       ELSE /\ out' = data_[PopSlot(cl.read_idx)]
            /\ cpc' = "L64"
            /\ UNCHANGED <<panicked, cl>>
    /\ UNCHANGED <<rbvars, histvars, ppc, pl, benchvars, scen, wrapvars>>

\* pop, lines 64-70: publishes the next read cursor and returns true.
C_Store ==
    /\ ~panicked
    /\ cpc = "L64"
    /\ read_idx_' = NextReadIdx(cl.read_idx)
    /\ cpc' = "idle"
    /\ cl' = [cl EXCEPT !.ret = "true"]
    /\ popped' = Append(popped, out)
    /\ UNCHANGED <<capacity, data_, read_idx_cached_, write_idx_, write_idx_cached_>>
    /\ UNCHANGED <<out, panicked, pushed, last, run, ppc, pl, benchvars, scen, wrapvars>>

NextSteps ==
    \/ \E val \in Values : P_Load(val)
    \/ P_Refresh
    \/ P_Write
    \/ P_Store
    \/ C_Load
    \/ C_Refresh
    \/ C_Read
    \/ C_Store

SpecSteps == InitSteps /\ [][NextSteps]_vars

\* ------------------------------------------------- SpecBench: bench()
\* The spawned thread pops and checks, the main thread pushes 0..iters-1 and
\* then polls for the drain; each call of push and pop, and each drain
\* check, is made through q.lock(), so it runs with the Mutex held.
CapacitiesBench == 0 .. MaxCapBench

InitBench ==
    /\ \E cap \in CapacitiesBench : new(cap)
    /\ StepsIdle
    /\ WrapOff
    /\ scen = 0
    /\ iters \in 0 .. MaxIters
    /\ mutex = "free"
    /\ b_ppc = "for"
    /\ prod_i = 0
    /\ b_cpc = "for"
    /\ cons_i = 0
    /\ exited = FALSE
    /\ out = 0
    /\ panicked = FALSE
    /\ pushed = <<>>
    /\ popped = <<>>
    /\ last = [op |-> "new", val |-> 0, ret |-> "true", refreshed |-> FALSE, tick |-> 0]
    /\ run = 0

Running == ~panicked /\ ~exited

\* Lines 99-100: the consumer's for loop starts iteration cons_i with val = 0,
\* or ends.
BC_For ==
    /\ Running
    /\ b_cpc = "for"
    /\ IF cons_i < iters
       THEN /\ out' = 0
            /\ b_cpc' = "lock"
       ELSE /\ b_cpc' = "done"
            /\ UNCHANGED out
    /\ UNCHANGED <<rbvars, panicked, histvars, stepvars, iters, mutex, b_ppc, prod_i, cons_i, exited, scen, wrapvars>>

\* Line 102: q.lock() by the consumer.
BC_Lock ==
    /\ Running
    /\ b_cpc = "lock"
    /\ mutex = "free"
    /\ mutex' = "cons"
    /\ b_cpc' = "pop"
    /\ UNCHANGED <<rbvars, out, panicked, histvars, stepvars, iters, b_ppc, prod_i, cons_i, exited, scen, wrapvars>>

\* Lines 102-105: pop(&mut val) under the lock, the guard dropped after it;
\* break on true, retry on false.
BC_Pop ==
    /\ Running
    /\ b_cpc = "pop"
    /\ \E ret \in Rets :
        /\ pop(out, out', ret)
        /\ panicked' = (ret = "panic")
        /\ popped' = IF ret = "true" THEN Append(popped, out') ELSE popped
        /\ b_cpc' = IF ret = "true" THEN "check" ELSE "lock"
    /\ mutex' = "free"
    /\ UNCHANGED <<pushed, last, run, stepvars, iters, b_ppc, prod_i, cons_i, exited, scen, wrapvars>>

\* Lines 107-111: a value other than i ends the process with exit(1).
BC_Check ==
    /\ Running
    /\ b_cpc = "check"
    /\ IF out # cons_i
       THEN /\ exited' = TRUE
            /\ UNCHANGED <<b_cpc, cons_i>>
       ELSE /\ cons_i' = cons_i + 1
            /\ b_cpc' = "for"
            /\ UNCHANGED exited
    /\ UNCHANGED <<rbvars, out, panicked, histvars, stepvars, iters, mutex, b_ppc, prod_i, scen, wrapvars>>

\* Line 117: the producer's for loop starts iteration prod_i, or ends.
BP_For ==
    /\ Running
    /\ b_ppc = "for"
    /\ b_ppc' = IF prod_i < iters THEN "lock" ELSE "drain"
    /\ UNCHANGED <<rbvars, out, panicked, histvars, stepvars, iters, mutex, prod_i, b_cpc, cons_i, exited, scen, wrapvars>>

\* Line 119: q2.lock() by the producer.
BP_Lock ==
    /\ Running
    /\ b_ppc = "lock"
    /\ mutex = "free"
    /\ mutex' = "prod"
    /\ b_ppc' = "push"
    /\ UNCHANGED <<rbvars, out, panicked, histvars, stepvars, iters, prod_i, b_cpc, cons_i, exited, scen, wrapvars>>

\* Lines 119-122: push(i) under the lock, the guard dropped after it; break
\* on true (the for loop moves to i + 1), retry on false.
BP_Push ==
    /\ Running
    /\ b_ppc = "push"
    /\ \E ret \in Rets :
        /\ push(prod_i, ret)
        /\ panicked' = (ret = "panic")
        /\ pushed' = IF ret = "true" THEN Append(pushed, prod_i) ELSE pushed
        /\ b_ppc' = IF ret = "true" THEN "for" ELSE "lock"
        /\ prod_i' = IF ret = "true" THEN prod_i + 1 ELSE prod_i
    /\ mutex' = "free"
    /\ UNCHANGED <<out, popped, last, run, stepvars, iters, b_cpc, cons_i, exited, scen, wrapvars>>

\* Line 126: q2.lock() in the drain loop.
BP_DrainLock ==
    /\ Running
    /\ b_ppc = "drain"
    /\ mutex = "free"
    /\ mutex' = "prod"
    /\ b_ppc' = "drained"
    /\ UNCHANGED <<rbvars, out, panicked, histvars, stepvars, iters, prod_i, b_cpc, cons_i, exited, scen, wrapvars>>

\* Lines 127-130: the drain test under the lock; the guard is dropped when the
\* loop body is left.
BP_DrainCheck ==
    /\ Running
    /\ b_ppc = "drained"
    /\ b_ppc' = IF read_idx_ = write_idx_ THEN "join" ELSE "drain"
    /\ mutex' = "free"
    /\ UNCHANGED <<rbvars, out, panicked, histvars, stepvars, iters, prod_i, b_cpc, cons_i, exited, scen, wrapvars>>

\* Line 133: t.join() returns once the consumer thread has ended.
BP_Join ==
    /\ Running
    /\ b_ppc = "join"
    /\ b_cpc = "done"
    /\ b_ppc' = "done"
    /\ UNCHANGED <<rbvars, out, panicked, histvars, stepvars, iters, mutex, prod_i, b_cpc, cons_i, exited, scen, wrapvars>>

NextBench ==
    \/ BC_For
    \/ BC_Lock
    \/ BC_Pop
    \/ BC_Check
    \/ BP_For
    \/ BP_Lock
    \/ BP_Push
    \/ BP_DrainLock
    \/ BP_DrainCheck
    \/ BP_Join

SpecBench == InitBench /\ [][NextBench]_vars

\* The steps of the spawned consumer thread (lines 97-112) and of the main
\* thread as producer (lines 117-133).
BenchConsumer == BC_For \/ BC_Lock \/ BC_Pop \/ BC_Check
BenchProducer == BP_For \/ BP_Lock \/ BP_Push \/ BP_DrainLock \/ BP_DrainCheck \/ BP_Join

\* bench() with both threads scheduled weakly fairly: a thread that can
\* continuously take a step eventually takes one.  std::sync::Mutex gives
\* no order among the threads that wait for it, so lock() gets no stronger
\* fairness.
SpecBenchFair ==
    /\ SpecBench
    /\ WF_vars(BenchConsumer)
    /\ WF_vars(BenchProducer)

\* ------------------------------------------- SpecWrap: record and replay
\* A sequence of calls is made on a freshly constructed buffer and recorded
\* with its answers.  A buffer of the same capacity is then constructed,
\* taken through at least three cycles of capacity-1 successful pushes
\* followed by capacity-1 successful pops, and given the recorded calls again.
CapacitiesWrap == 2 .. MaxCapWrap
ValuesWrap == 1 .. MaxValWrap

InitWrap ==
    /\ \E cap \in CapacitiesWrap : new(cap)
    /\ StepsIdle
    /\ BenchOff
    /\ out = -1
    /\ panicked = FALSE
    /\ pushed = <<>>
    /\ popped = <<>>
    /\ last = [op |-> "new", val |-> 0, ret |-> "true", refreshed |-> FALSE, tick |-> 0]
    /\ run = 0
    /\ scen = 0
    /\ wphase = "record"
    /\ wtrace = <<>>
    /\ wcycles = 0
    /\ wstep = 0
    /\ wans = <<>>

WrapFrame == UNCHANGED <<histvars, stepvars, benchvars, scen>>

\* push(val) on the fresh buffer, recorded.
W_RecordPush(val) ==
    /\ ~panicked
    /\ wphase = "record"
    /\ Len(wtrace) < MaxTrace
    /\ \E ret \in Rets :
        /\ panicked' = (ret = "panic")
        /\ push(val, ret)
        /\ wtrace' = Append(wtrace, [op |-> "push", val |-> val, ret |-> ret, out |-> out])
    /\ UNCHANGED <<out, wphase, wcycles, wstep, wans>>
    /\ WrapFrame

\* pop(&mut out) on the fresh buffer, recorded.
W_RecordPop ==
    /\ ~panicked
    /\ wphase = "record"
    /\ Len(wtrace) < MaxTrace
    /\ \E ret \in Rets :
        /\ panicked' = (ret = "panic")
        /\ pop(out, out', ret)
        /\ wtrace' = Append(wtrace, [op |-> "pop", val |-> 0, ret |-> ret, out |-> out'])
    /\ UNCHANGED <<wphase, wcycles, wstep, wans>>
    /\ WrapFrame

\* RingBuffer::new(capacity) again: the buffer that will be cycled.
W_Renew ==
    /\ ~panicked
    /\ wphase = "record"
    /\ wphase' = "cycle"
    /\ capacity' = capacity
    /\ data_' = [i \in 0 .. capacity - 1 |-> 0]
    /\ read_idx_' = 0
    /\ read_idx_cached_' = 0
    /\ write_idx_' = 0
    /\ write_idx_cached_' = 0
    /\ out' = -1
    /\ UNCHANGED <<panicked, wtrace, wcycles, wstep, wans>>
    /\ WrapFrame

\* One push of the fill half of a cycle.
W_Fill(val) ==
    /\ ~panicked
    /\ wphase = "cycle"
    /\ wcycles < MaxCycles
    /\ wstep < capacity - 1
    /\ \E ret \in Rets :
        /\ panicked' = (ret = "panic")
        /\ push(val, ret)
        /\ wstep' = IF ret = "true" THEN wstep + 1 ELSE wstep
    /\ UNCHANGED <<out, wphase, wtrace, wcycles, wans>>
    /\ WrapFrame

\* One pop of the drain half of a cycle; the last one completes the cycle.
W_Drain ==
    /\ ~panicked
    /\ wphase = "cycle"
    /\ wcycles < MaxCycles
    /\ wstep >= capacity - 1
    /\ \E ret \in Rets :
        /\ panicked' = (ret = "panic")
        /\ pop(out, out', ret)
        /\ LET done == IF ret = "true" THEN wstep + 1 ELSE wstep
           IN  IF done = 2 * (capacity - 1)
               THEN wstep' = 0 /\ wcycles' = wcycles + 1
               ELSE wstep' = done /\ wcycles' = wcycles
    /\ UNCHANGED <<wphase, wtrace, wans>>
    /\ WrapFrame

\* After at least three whole cycles the recorded calls are made again, by
\* a caller whose out starts as it did on the fresh buffer.
W_StartReplay ==
    /\ ~panicked
    /\ wphase = "cycle"
    /\ wstep = 0
    /\ wcycles >= 3
    /\ wphase' = "replay"
    /\ out' = -1
    /\ UNCHANGED <<rbvars, panicked, wtrace, wcycles, wstep, wans>>
    /\ WrapFrame

\* The next recorded call, a push, on the cycled buffer.
W_ReplayPush ==
    /\ ~panicked
    /\ wphase = "replay"
    /\ Len(wans) < Len(wtrace)
    /\ wtrace[Len(wans) + 1].op = "push"
    /\ \E ret \in Rets :
        /\ panicked' = (ret = "panic")
        /\ push(wtrace[Len(wans) + 1].val, ret)
        /\ wans' = Append(wans, [ret |-> ret, out |-> out])
    /\ UNCHANGED <<out, wphase, wtrace, wcycles, wstep>>
    /\ WrapFrame

\* The next recorded call, a pop, on the cycled buffer.
W_ReplayPop ==
    /\ ~panicked
    /\ wphase = "replay"
    /\ Len(wans) < Len(wtrace)
    /\ wtrace[Len(wans) + 1].op = "pop"
    /\ \E ret \in Rets :
        /\ panicked' = (ret = "panic")
        /\ pop(out, out', ret)
        /\ wans' = Append(wans, [ret |-> ret, out |-> out'])
    /\ UNCHANGED <<wphase, wtrace, wcycles, wstep>>
    /\ WrapFrame

NextWrap ==
    \/ \E val \in ValuesWrap : W_RecordPush(val)
    \/ W_RecordPop
    \/ W_Renew
    \/ \E val \in ValuesWrap : W_Fill(val)
    \/ W_Drain
    \/ W_StartReplay
    \/ W_ReplayPush
    \/ W_ReplayPop

SpecWrap == InitWrap /\ [][NextWrap]_vars

\* ------------------------------------------------- properties of Spec
\* Values accepted and not yet delivered.
Resident == Len(pushed) - Len(popped)

\* A step of Spec that is a call of push / of pop.
PushCalled == last'.tick # last.tick /\ last'.op = "push"
PopCalled == last'.tick # last.tick /\ last'.op = "pop"

\* C1: FIFO order.  The values delivered by the successful pops, in call
\* order, are a prefix of the values accepted by the successful pushes, in
\* call order: the k-th successful pop returns the value of the k-th
\* successful push.
C1_FifoOrder ==
    /\ Len(popped) <= Len(pushed)
    /\ \A k \in 1 .. Len(popped) : popped[k] = pushed[k]

\* The cursors have wrapped, and two different values came out in order.
C1_Witness ==
    /\ capacity >= 2
    /\ Len(popped) > capacity
    /\ popped[Len(popped)] # popped[Len(popped) - 1]
    /\ last.op = "pop" /\ last.ret = "true"

\* C3: capacity bound.  With capacity C >= 1 at most C-1 values are resident,
\* and of the pushes made in a row on an empty buffer the first C-1 return
\* true and the C-th returns false.
C3_CapacityBound ==
    capacity >= 1 =>
        /\ Resident <= capacity - 1
        /\ run \in 1 .. capacity - 1 => last.op = "push" /\ last.ret = "true"
        /\ run = capacity => last.op = "push" /\ last.ret = "false"

\* The C-th push in a row was rejected on a buffer that was emptied by pops
\* before (its cursors are not at 0).
C3_Witness ==
    /\ capacity >= 3
    /\ run = capacity
    /\ last.ret = "false"
    /\ Len(popped) >= 1
    /\ Resident = capacity - 1

\* C6: full and empty by the cursors.  With capacity C >= 2, between calls,
\* the number of resident values is (write_index - read_index) mod C; it is 0
\* exactly when the cursors are equal and C-1 exactly when
\* (write_index + 1) mod C = read_index.
C6_CursorCharacterisation ==
    capacity >= 2 =>
        /\ Resident = (write_idx_ - read_idx_) % capacity
        /\ (read_idx_ = write_idx_) <=> (Resident = 0)
        /\ ((write_idx_ + 1) % capacity = read_idx_) <=> (Resident = capacity - 1)

\* The buffer is full with the write cursor wrapped behind the read cursor.
C6_Witness ==
    /\ capacity >= 3
    /\ write_idx_ < read_idx_
    /\ (write_idx_ + 1) % capacity = read_idx_
    /\ Resident = capacity - 1

\* C7: push is rejected exactly when the buffer is full.  A call of push
\* (capacity >= 1) returns false if and only if
\* (write_index + 1) mod capacity = read_index when it is called, whatever
\* read_idx_cached_ holds; otherwise it returns true.
C7_PushRejectedIffFull ==
    [][PushCalled /\ capacity >= 1 =>
        /\ (last'.ret = "false") <=> ((write_idx_ + 1) % capacity = read_idx_)
        /\ last'.ret \in {"false", "true"}]_vars

\* A push found the cached read cursor saying "full", refreshed it, and was
\* accepted.
C7_Witness ==
    /\ last.op = "push"
    /\ last.refreshed
    /\ last.ret = "true"
    /\ capacity >= 2

\* C8: pop is rejected exactly when the buffer is empty.  A call of pop
\* returns false if and only if read_index = write_index when it is called,
\* whatever write_idx_cached_ holds; otherwise it returns true and out
\* receives storage[read_index].
C8_PopRejectedIffEmpty ==
    [][PopCalled =>
        /\ (last'.ret = "false") <=> (read_idx_ = write_idx_)
        /\ last'.ret \in {"false", "true"}
        /\ last'.ret = "true" => out' = data_[read_idx_]]_vars

\* A pop found the cached write cursor saying "empty", refreshed it, and
\* delivered a value.
C8_Witness ==
    /\ last.op = "pop"
    /\ last.refreshed
    /\ last.ret = "true"
    /\ read_idx_ = 0
    /\ Len(popped) >= 2

\* C9: a rejected push mutates nothing.  When push returns false, storage,
\* write_index and read_index are as before the call (so the rejected value
\* was stored nowhere); of the buffer's fields only read_idx_cached_ may
\* differ.
C9_RejectedPushMutatesNothing ==
    [][PushCalled /\ last'.ret = "false" =>
        /\ data_' = data_
        /\ write_idx_' = write_idx_
        /\ read_idx_' = read_idx_
        /\ write_idx_cached_' = write_idx_cached_
        /\ capacity' = capacity]_vars

\* A push was rejected and its value is in no slot, while its refresh
\* changed read_idx_cached_ to the current read cursor.
C9_Witness ==
    /\ last.op = "push" /\ last.ret = "false"
    /\ capacity >= 3
    /\ \A i \in DOMAIN data_ : data_[i] # last.val
    /\ read_idx_cached_ = read_idx_ /\ read_idx_ # 0

\* C10: empty start and rejected pop.  The first call after new(capacity),
\* if it is a pop, returns false; and whenever pop returns false the caller's
\* out value, storage, read_index and write_index are as before the call.
C10_RejectedPopMutatesNothing ==
    [][PopCalled =>
        /\ last.op = "new" => last'.ret = "false"
        /\ last'.ret = "false" =>
            /\ out' = out
            /\ data_' = data_
            /\ read_idx_' = read_idx_
            /\ write_idx_' = write_idx_]_vars

\* A pop was rejected on a drained buffer whose next slot holds a value other
\* than the one the caller still has in out.
C10_Witness ==
    /\ last.op = "pop" /\ last.ret = "false"
    /\ capacity >= 2
    /\ Len(popped) >= 1
    /\ out = popped[Len(popped)]
    /\ data_[read_idx_] # out

\* C12: reference scenario.  On a buffer of capacity 4: push(1), push(2),
\* push(3) return true and push(4) returns false; pop returns true with 1;
\* push(4) returns true; three pops return true with 2, 3, 4; the next pop
\* returns false.  (Checked in Spec; scen counts the scenario's calls made.)
C12_ReferenceScenario ==
    LET answers == << [ret |-> "true"], [ret |-> "true"], [ret |-> "true"],
                      [ret |-> "false"], [ret |-> "true", out |-> 1],
                      [ret |-> "true"], [ret |-> "true", out |-> 2],
                      [ret |-> "true", out |-> 3], [ret |-> "true", out |-> 4],
                      [ret |-> "false"] >>
    IN  capacity = 4 /\ scen >= 1 =>
            /\ last.op = Scenario[scen].op
            /\ last.ret = answers[scen].ret
            /\ "out" \in DOMAIN answers[scen] => out = answers[scen].out

\* The whole scenario has been run on a buffer of capacity 4.
C12_Witness ==
    /\ capacity = 4
    /\ scen = Len(Scenario)
    /\ popped = <<1, 2, 3, 4>>

\* C14: degenerate capacities.  On a buffer made by new(0) or new(1) every
\* push returns false, every pop returns false, and neither panics.
C14_DegenerateCapacities ==
    capacity <= 1 =>
        /\ ~panicked
        /\ last.op \in {"push", "pop"} => last.ret = "false"

\* -------------------------------------------- properties of SpecSteps
\* The producer has passed push's full test and has not yet published
\* write_idx_: it is about to write, or has just written, slot pl.write_idx.
ProducerInSlot == ppc \in {"L49", "L50"}

\* The consumer has passed pop's empty test and has not yet published
\* read_idx_: it is about to read, or has just read, slot cl.read_idx.
ConsumerInSlot == cpc \in {"L63", "L64"}

\* The slots from read_idx_ up to but excluding write_idx_, circularly.
UnreadSlots ==
    IF capacity = 0 THEN {}
    ELSE {(read_idx_ + k) % capacity :
            k \in 0 .. ((write_idx_ - read_idx_) % capacity) - 1}

\* C4: slot exclusion.  Under every interleaving of the statements of one
\* push and one pop, the producer is never between choosing slot i to write
\* and publishing write_index while the consumer is between choosing the
\* same slot i to read and publishing read_index.
C4_SlotExclusion ==
    ~(/\ ProducerInSlot
      /\ ConsumerInSlot
      /\ PushSlot(pl.write_idx) = PopSlot(cl.read_idx))

\* After a wraparound, the consumer is reading the slot right behind the one
\* the producer is writing.
C4_Witness ==
    /\ capacity >= 3
    /\ ProducerInSlot
    /\ ConsumerInSlot
    /\ NextReadIdx(cl.read_idx) = pl.write_idx
    /\ Len(popped) >= capacity - 1
    /\ pl.write_idx < read_idx_

\* C5: the producer never overwrites an unread slot.  In every state each
\* slot from read_index up to but excluding write_index holds the value of
\* the successful push that filled it; no step changes such a slot, and the
\* slot push writes at line 49 is outside that range.
C5_NoOverwriteOfUnread ==
    /\ [](\A k \in 0 .. Cardinality(UnreadSlots) - 1 :
            /\ Len(popped) + k + 1 <= Len(pushed)
            /\ data_[(read_idx_ + k) % capacity] = pushed[Len(popped) + k + 1])
    /\ [][/\ \A i \in UnreadSlots : data_'[i] = data_[i]
          /\ ppc = "L49" /\ ppc' = "L50" => PushSlot(pl.write_idx) \notin UnreadSlots]_vars

\* The buffer is full across the wraparound, a push has just been rejected,
\* and the consumer is in the middle of reading the oldest unread slot.
C5_Witness ==
    /\ capacity >= 3
    /\ Cardinality(UnreadSlots) = capacity - 1
    /\ write_idx_ < read_idx_
    /\ ppc = "idle" /\ pl.ret = "false"
    /\ cpc = "L63"
    /\ \A i \in UnreadSlots : data_[i] # pl.val

\* C15: cursor range.  With capacity C >= 1, in every state, also between
\* the statements of a push or a pop, 0 <= read_index < C and
\* 0 <= write_index < C; the slots push and pop access are within bounds (no
\* panic); and both cursors are 0 as long as nothing was pushed or popped.
C15_CursorRange ==
    capacity >= 1 =>
        /\ read_idx_ \in 0 .. capacity - 1
        /\ write_idx_ \in 0 .. capacity - 1
        /\ ppc = "L49" => PushSlot(pl.write_idx) \in DOMAIN data_
        /\ cpc = "L63" => PopSlot(cl.read_idx) \in DOMAIN data_
        /\ ~panicked
        /\ pushed = <<>> => write_idx_ = 0
        /\ popped = <<>> => read_idx_ = 0

\* The write cursor has wrapped to slot 0 and the producer is about to write
\* there, while the consumer is about to read the last slot.
C15_Witness ==
    /\ capacity >= 3
    /\ write_idx_ = 0 /\ Len(pushed) >= capacity
    /\ ppc = "L49"
    /\ cpc = "L63" /\ cl.read_idx = capacity - 1

\* A step of the producer / of the consumer in SpecSteps.
ProducerStep == <<ppc, pl>>' # <<ppc, pl>>
ConsumerStep == <<cpc, cl>>' # <<cpc, cl>>

\* C16: single-writer ownership.  No step of push, accepted or rejected,
\* changes read_index or write_idx_cached_; no step of pop, accepted or
\* rejected, changes write_index, read_idx_cached_ or a storage slot.
C16_SingleWriter ==
    [][/\ ProducerStep => /\ read_idx_' = read_idx_
                          /\ write_idx_cached_' = write_idx_cached_
       /\ ConsumerStep => /\ write_idx_' = write_idx_
                          /\ read_idx_cached_' = read_idx_cached_
                          /\ data_' = data_]_vars

\* A rejected push and an accepted pop have both completed, and both caches
\* have been refreshed away from their initial value.
C16_Witness ==
    /\ capacity >= 3
    /\ ppc = "idle" /\ pl.ret = "false"
    /\ cpc = "idle" /\ cl.ret = "true"
    /\ read_idx_cached_ # 0
    /\ write_idx_cached_ # 0

\* C17: no rejection on a stale cache.  A push returns false only in its
\* refresh step (line 42) and only if (write_index + 1) mod capacity =
\* read_index holds at that load; a pop returns false only in its refresh
\* step (line 58) and only if read_index = write_index holds at that load.
C17_NoStaleRejection ==
    [][/\ (ProducerStep /\ pl'.ret = "false") =>
            /\ ppc = "L42"
            /\ capacity >= 1
            /\ (write_idx_ + 1) % capacity = read_idx_
       /\ (ConsumerStep /\ cl'.ret = "false") =>
            /\ cpc = "L58"
            /\ read_idx_ = write_idx_]_vars

\* The producer found its cached read cursor saying "full" although the
\* consumer had freed a slot, and is at the refresh that will let it go on.
C17_Witness ==
    /\ capacity >= 3
    /\ ppc = "L42"
    /\ pl.next_write_idx = read_idx_cached_
    /\ pl.next_write_idx # read_idx_
    /\ cpc = "idle" /\ cl.ret = "false"

\* C18: effect of a successful push.  Line 49 changes storage[w] to v and
\* no other slot, where w is write_index; line 50 then changes write_index
\* to (w + 1) mod capacity with storage[w] = v already in place; nothing
\* else changes storage or write_index.  So in no state has write_index
\* moved past a slot that does not hold the value pushed into it.
C18_SuccessfulPushEffect ==
    /\ [](capacity >= 2 /\ Len(pushed) >= 1 =>
            data_[(write_idx_ - 1) % capacity] = pushed[Len(pushed)])
    /\ [][/\ (ppc = "L49" /\ ppc' = "L50") =>
                /\ write_idx_ = pl.write_idx
                /\ data_' = [data_ EXCEPT ![pl.write_idx] = pl.val]
          /\ ~(ppc = "L49" /\ ppc' = "L50") => data_' = data_
          /\ (ppc = "L50" /\ ppc' = "idle") =>
                /\ pl'.ret = "true"
                /\ write_idx_ = pl.write_idx
                /\ data_[pl.write_idx] = pl.val
                /\ write_idx_' = (pl.write_idx + 1) % capacity
          /\ ~(ppc = "L50" /\ ppc' = "idle") => write_idx_' = write_idx_]_vars

\* After a wraparound the producer has written its value and not yet
\* published it, while the consumer, at its refresh, waits for that slot.
C18_Witness ==
    /\ capacity >= 2
    /\ Len(pushed) >= capacity
    /\ ppc = "L50"
    /\ data_[pl.write_idx] = pl.val
    /\ write_idx_ = pl.write_idx
    /\ cpc = "L58" /\ cl.read_idx = pl.write_idx

\* How many pops read_idx_cached_ lags behind read_idx_, and how many pushes
\* write_idx_cached_ lags behind write_idx_.
ReadCacheLag == (read_idx_ - read_idx_cached_) % capacity
WriteCacheLag == (write_idx_ - write_idx_cached_) % capacity

\* C20: cached cursors are conservative.  In every state read_idx_cached_
\* is a value read_index held earlier and (write_index - read_idx_cached_)
\* mod capacity >= (write_index - read_index) mod capacity; write_idx_cached_
\* is a value write_index held earlier and (write_idx_cached_ - read_index)
\* mod capacity <= (write_index - read_index) mod capacity.
C20_CachesConservative ==
    capacity >= 1 =>
        /\ ReadCacheLag <= Len(popped)
        /\ (write_idx_ - read_idx_cached_) % capacity
                >= (write_idx_ - read_idx_) % capacity
        /\ WriteCacheLag <= Len(pushed)
        /\ (write_idx_cached_ - read_idx_) % capacity
                <= (write_idx_ - read_idx_) % capacity

\* Both caches are stale at once, after a wraparound.
C20_Witness ==
    /\ capacity >= 3
    /\ ReadCacheLag >= 1
    /\ WriteCacheLag >= 1
    /\ write_idx_ < read_idx_

\* -------------------------------------------- properties of SpecBench
\* C2: no loss, duplication or reordering in bench().  Under every
\* interleaving of the two threads the i-th successful pop yields i, the
\* consumer's mismatch check never fires, and a consumer that has finished
\* has observed exactly 0..iters-1.
C2_BenchSequence ==
    /\ ~exited
    /\ \A k \in 1 .. Len(popped) : popped[k] = k - 1
    /\ Len(popped) <= iters
    /\ b_cpc = "check" => out = cons_i
    /\ b_cpc = "done" => Len(popped) = iters

\* Both threads have finished a run of at least four values through a
\* buffer with a single usable slot.
C2_Witness ==
    /\ b_cpc = "done"
    /\ b_ppc = "done"
    /\ capacity = 2
    /\ iters >= 4
    /\ popped = <<0, 1, 2, 3>>

\* C13: neither side blocks the other.  No step of one thread's call is
\* disabled because the other thread is in the middle of its own call: a
\* thread that has reached q.lock() (line 102, lines 119 and 126) never
\* finds the Mutex held by the other thread.
C13_NeitherSideBlocks ==
    capacity >= 2 =>
        /\ b_cpc = "lock" => mutex # "prod"
        /\ b_ppc \in {"lock", "drain"} => mutex # "cons"

C11_NoIndexDrift ==
    wphase = "replay" =>
        \A k \in 1 .. Len(wans) :
            /\ wans[k].ret = wtrace[k].ret
            /\ wans[k].out = wtrace[k].out

\* A whole recorded sequence with an accepted push, a rejected push, a
\* delivering pop and a rejected pop has been replayed on a buffer whose
\* cursors stood at a non-zero slot when the replay began.
C11_Witness ==
    /\ wphase = "replay"
    /\ Len(wans) = Len(wtrace)
    /\ Len(wtrace) >= 4
    /\ \E k \in 1 .. Len(wtrace) : wtrace[k].op = "push" /\ wtrace[k].ret = "false"
    /\ \E k \in 1 .. Len(wtrace) : wtrace[k].op = "pop" /\ wtrace[k].ret = "true"
    /\ \E k \in 1 .. Len(wtrace) : wtrace[k].op = "pop" /\ wtrace[k].ret = "false"
    /\ (3 * (capacity - 1)) % capacity # 0
    /\ wcycles = 3

====
